---- MODULE Spec2Model ----
(***************************************************************************)
(* Model of geodesic_sphere.py: the dual-mesh builder, the organic jitter  *)
(* pass and the module-level modelling pipeline.                           *)
(*                                                                         *)
(* Numbers.  The script computes in floating point; the model computes in  *)
(* exact integer and rational arithmetic, on inputs for which every value  *)
(* the code computes is rational.  A normalisation whose only effect is a  *)
(* positive rescaling (the argument of atan2) is modelled by the primitive *)
(* integer vector of the same direction.                                   *)
(***************************************************************************)
EXTENDS Integers, Sequences, FiniteSets, TLC

VARIABLES
    \* ----- build_dual_from_object -----
    objMesh,     \* obj.data: the input mesh [verts, faces]
    bm,          \* the working bmesh (after from_mesh and triangulate)
    dpc,         \* position in build_dual_from_object
    fi,          \* index of the face the loop of line 141 is at
    vi,          \* index of the vertex the loop of line 148 is at
    dualVerts,   \* dual_bm.verts: one centroid per emitted dual vertex
    faceToDv,    \* face_to_dv: face index -> dual vertex index
    dualFaces,   \* dual_bm.faces: [v: original vertex, corners: dual vertices]
    \* ----- organic_jitter_dual_on_sphere -----
    jIn,         \* the dual mesh handed in: [pos, edges]
    jp,          \* the arguments: [radius, strength, smooth_iters, lam, seed]
    co,          \* v.co of every vertex of the mesh being jittered
    rng,         \* the state of the process-wide generator of module random
    jpc,         \* position in organic_jitter_dual_on_sphere
    jv,          \* index of the vertex a per-vertex loop is at
    sit,         \* smoothing iterations done (line 72)
    offsets,     \* the dict offsets
    run,         \* 1 for the first call, 2 for the repeated call
    out1,        \* the vertex positions the first call left
    pre,         \* the generator's state on entry to each call so far
    \* ----- the module-level script, lines 186-296 -----
    cfg,         \* the parameters of lines 20-37 (lengths in units of 0.01)
    ppc,         \* position in the script
    objs,        \* the objects of the scene: name -> [kind, size, origin]
    active,      \* bpy.context.view_layer.objects.active
    selected,    \* bpy.context.selected_objects
    mods,        \* struts.modifiers: the modifiers not applied yet
    applied,     \* the modifiers applied, in order
    created,     \* the objects the script has created so far
    failure,     \* what the run looked like when a modifier failed to apply
    before       \* the names of the objects the scene held before the run

dualVars == <<objMesh, bm, dpc, fi, vi, dualVerts, faceToDv, dualFaces>>
jitterVars == <<jIn, jp, co, rng, jpc, jv, sit, offsets, run, out1, pre>>
pipeVars == <<cfg, ppc, objs, active, selected, mods, applied, created, failure,
             before>>
vars == <<dualVars, jitterVars, pipeVars>>

-----------------------------------------------------------------------------
(* Integer vectors (mathutils.Vector)                                      *)

Abs(x) == IF x < 0 THEN -x ELSE x

RECURSIVE Gcd(_, _)
Gcd(a, b) == IF b = 0 THEN Abs(a) ELSE Gcd(Abs(b), Abs(a) % Abs(b))

Zero3 == <<0, 0, 0>>

VAdd(a, b) == <<a[1] + b[1], a[2] + b[2], a[3] + b[3]>>

VSub(a, b) == <<a[1] - b[1], a[2] - b[2], a[3] - b[3]>>

VScale(k, a) == <<k * a[1], k * a[2], k * a[3]>>

Dot(a, b) == a[1] * b[1] + a[2] * b[2] + a[3] * b[3]

Cross(a, b) ==
    << a[2] * b[3] - a[3] * b[2],
       a[3] * b[1] - a[1] * b[3],
       a[1] * b[2] - a[2] * b[1] >>

\* The direction of a: a divided by the gcd of its components.  It stands for
\* a.normalized() wherever only the direction is read; the zero vector stays
\* the zero vector, as in mathutils.
Direction(a) ==
    LET g == Gcd(Gcd(a[1], a[2]), a[3])
    IN  IF g = 0 THEN Zero3 ELSE <<a[1] \div g, a[2] \div g, a[3] \div g>>

-----------------------------------------------------------------------------
(* Exact rationals <<n, d>> and rational vectors [n, d] (d > 0, reduced)   *)

Sign(x) == IF x < 0 THEN -1 ELSE IF x > 0 THEN 1 ELSE 0

\* The square root of a perfect square.
ISqrt(k) == CHOOSE r \in 0..k : r * r = k

Rat(n, d) ==
    LET g == Gcd(n, d)
    IN  IF n = 0 THEN <<0, 1>> ELSE <<(Sign(d) * n) \div g, Abs(d) \div g>>

RatAdd(a, b) == Rat(a[1] * b[2] + b[1] * a[2], a[2] * b[2])

RatMul(a, b) == Rat(a[1] * b[1], a[2] * b[2])

RVec(n, d) ==
    LET g == Gcd(Gcd(Gcd(n[1], n[2]), n[3]), d)
    IN  IF n = Zero3 THEN [n |-> Zero3, d |-> 1]
        ELSE [n |-> <<(Sign(d) * n[1]) \div g, (Sign(d) * n[2]) \div g,
                      (Sign(d) * n[3]) \div g>>,
              d |-> Abs(d) \div g]

RVZero == [n |-> Zero3, d |-> 1]

RVAdd(a, b) == RVec(VAdd(VScale(b.d, a.n), VScale(a.d, b.n)), a.d * b.d)

RVSub(a, b) == RVec(VSub(VScale(b.d, a.n), VScale(a.d, b.n)), a.d * b.d)

\* q * a for the rational q.
RVScale(q, a) == RVec(VScale(q[1], a.n), q[2] * a.d)

RVDot(a, b) == Rat(Dot(a.n, b.n), a.d * b.d)

\* a.normalized() for a vector of rational length; the zero vector stays the
\* zero vector.
RVUnit(a) ==
    IF a.n = Zero3 THEN RVZero ELSE RVec(a.n, ISqrt(Dot(a.n, a.n)))

\* A position by its direction and its squared length: the form in which the
\* result of normalized() * radius is exact.
ToPos(a) == [dir |-> Direction(a.n), len2 |-> Rat(Dot(a.n, a.n), a.d * a.d)]

\* The coordinates of a position of rational length.
Cart(pos) ==
    IF pos.dir = Zero3 THEN RVZero
    ELSE LET q == Rat(pos.len2[1], pos.len2[2] * Dot(pos.dir, pos.dir))
         IN  RVec(VScale(ISqrt(q[1]), pos.dir), ISqrt(q[2]))

\* tangent_basis(n), lines 119-124, up to the lengths of t and b: a is the x
\* axis unless |n.x| >= 0.9 for the normalised n (100 x^2 >= 81 |n|^2).
tangent_basis(n) ==
    LET a == IF n = Zero3 \/ 100 * n[1] * n[1] < 81 * Dot(n, n)
             THEN <<1, 0, 0>> ELSE <<0, 1, 0>>
        t == Direction(Cross(n, a))
        b == Direction(Cross(n, t))
    IN  [t |-> t, b |-> b]

-----------------------------------------------------------------------------
(* Input meshes                                                            *)

Tetrahedron ==
  [ verts |-> << <<3,3,3>>, <<3,-3,-3>>, <<-3,3,-3>>, <<-3,-3,3>> >>,
    faces |-> << <<1,2,3>>, <<1,2,4>>, <<1,3,4>>, <<2,3,4>> >> ]

Octahedron ==
  [ verts |-> << <<4,0,0>>, <<-4,0,0>>, <<0,4,0>>, <<0,-4,0>>, <<0,0,4>>, <<0,0,-4>> >>,
    faces |-> << <<1,3,5>>, <<3,2,5>>, <<2,4,5>>, <<4,1,5>>,
                 <<3,1,6>>, <<2,3,6>>, <<4,2,6>>, <<1,4,6>> >> ]

\* The faces of the octahedron listed so that the faces around a vertex are not
\* met in fan order.
OctahedronShuffled ==
  [ verts |-> Octahedron.verts,
    faces |-> << <<1,3,5>>, <<2,4,5>>, <<3,2,5>>, <<4,1,5>>,
                 <<4,2,6>>, <<3,1,6>>, <<1,4,6>>, <<2,3,6>> >> ]

Bipyramid ==
  [ verts |-> << <<0,0,4>>, <<0,0,-4>>, <<4,0,0>>, <<-2,3,0>>, <<-2,-3,0>> >>,
    faces |-> << <<1,3,4>>, <<1,4,5>>, <<1,5,3>>, <<2,4,3>>, <<2,5,4>>, <<2,3,5>> >> ]

Icosahedron ==
  [ verts |-> <<
        <<-5,8,0>>, <<5,8,0>>, <<-5,-8,0>>, <<5,-8,0>>, <<0,-5,8>>, <<0,5,8>>, <<0,-5,-8>>,
        <<0,5,-8>>, <<8,0,-5>>, <<8,0,5>>, <<-8,0,-5>>, <<-8,0,5>> >>,
    faces |-> <<
        <<1,12,6>>, <<1,6,2>>, <<1,2,8>>, <<1,8,11>>, <<1,11,12>>, <<2,6,10>>, <<6,12,5>>,
        <<12,11,3>>, <<11,8,7>>, <<8,2,9>>, <<4,10,5>>, <<4,5,3>>, <<4,3,7>>, <<4,7,9>>,
        <<4,9,10>>, <<5,10,6>>, <<3,5,12>>, <<7,3,11>>, <<9,7,8>>, <<10,9,2>> >> ]

Icosphere42 ==
  [ verts |-> <<
        <<-5,9,0>>, <<5,9,0>>, <<-5,-9,0>>, <<5,-9,0>>, <<0,-5,9>>, <<0,5,9>>, <<0,-5,-9>>,
        <<0,5,-9>>, <<9,0,-5>>, <<9,0,5>>, <<-9,0,-5>>, <<-9,0,5>>, <<-8,5,3>>, <<-5,3,8>>,
        <<-3,8,5>>, <<3,8,5>>, <<0,10,0>>, <<3,8,-5>>, <<-3,8,-5>>, <<-5,3,-8>>, <<-8,5,-3>>,
        <<-10,0,0>>, <<5,3,8>>, <<8,5,3>>, <<-5,-3,8>>, <<0,0,10>>, <<-8,-5,-3>>, <<-8,-5,3>>,
        <<0,0,-10>>, <<-5,-3,-8>>, <<8,5,-3>>, <<5,3,-8>>, <<8,-5,3>>, <<5,-3,8>>, <<3,-8,5>>,
        <<-3,-8,5>>, <<0,-10,0>>, <<-3,-8,-5>>, <<3,-8,-5>>, <<5,-3,-8>>, <<8,-5,-3>>,
        <<10,0,0>> >>,
    faces |-> <<
        <<1,13,15>>, <<12,14,13>>, <<6,15,14>>, <<13,14,15>>, <<1,15,17>>, <<6,16,15>>,
        <<2,17,16>>, <<15,16,17>>, <<1,17,19>>, <<2,18,17>>, <<8,19,18>>, <<17,18,19>>,
        <<1,19,21>>, <<8,20,19>>, <<11,21,20>>, <<19,20,21>>, <<1,21,13>>, <<11,22,21>>,
        <<12,13,22>>, <<21,22,13>>, <<2,16,24>>, <<6,23,16>>, <<10,24,23>>, <<16,23,24>>,
        <<6,14,26>>, <<12,25,14>>, <<5,26,25>>, <<14,25,26>>, <<12,22,28>>, <<11,27,22>>,
        <<3,28,27>>, <<22,27,28>>, <<11,20,30>>, <<8,29,20>>, <<7,30,29>>, <<20,29,30>>,
        <<8,18,32>>, <<2,31,18>>, <<9,32,31>>, <<18,31,32>>, <<4,33,35>>, <<10,34,33>>,
        <<5,35,34>>, <<33,34,35>>, <<4,35,37>>, <<5,36,35>>, <<3,37,36>>, <<35,36,37>>,
        <<4,37,39>>, <<3,38,37>>, <<7,39,38>>, <<37,38,39>>, <<4,39,41>>, <<7,40,39>>,
        <<9,41,40>>, <<39,40,41>>, <<4,41,33>>, <<9,42,41>>, <<10,33,42>>, <<41,42,33>>,
        <<5,34,26>>, <<10,23,34>>, <<6,26,23>>, <<34,23,26>>, <<3,36,28>>, <<5,25,36>>,
        <<12,28,25>>, <<36,25,28>>, <<7,38,30>>, <<3,27,38>>, <<11,30,27>>, <<38,27,30>>,
        <<9,40,32>>, <<7,29,40>>, <<8,32,29>>, <<40,29,32>>, <<10,42,24>>, <<9,31,42>>,
        <<2,24,31>>, <<42,31,24>> >> ]

\* Two triangles on the same three vertices, glued along all three edges: closed,
\* every vertex of valence 2.
Pillow ==
  [ verts |-> << <<4,0,0>>, <<0,4,0>>, <<0,0,4>> >>,
    faces |-> << <<1,2,3>>, <<1,3,2>> >> ]

SingleTriangle ==
  [ verts |-> << <<4,0,0>>, <<0,4,0>>, <<0,0,4>> >>,
    faces |-> << <<1,2,3>> >> ]

\* Three triangles around one edge (1,2): vertices 1 and 2 have the same three
\* incident faces.
Book ==
  [ verts |-> << <<0,0,4>>, <<0,0,-4>>, <<4,0,0>>, <<-2,3,0>>, <<-2,-3,0>> >>,
    faces |-> << <<1,2,3>>, <<1,2,4>>, <<1,2,5>> >> ]

\* An open fan of three triangles around vertex 1, and a book around the edge
\* (6,7): vertices 6 and 7 have the same three incident faces.
FanAndBook ==
  [ verts |-> << <<0,0,4>>, <<4,0,0>>, <<0,4,0>>, <<-4,0,0>>, <<0,-4,0>>,
                 <<0,-6,-3>>, <<0,-6,3>>, <<2,-8,0>>, <<-2,-8,0>> >>,
    faces |-> << <<1,2,3>>, <<1,3,4>>, <<1,4,5>>,
                 <<6,7,8>>, <<6,7,9>>, <<6,7,5>> >> ]

\* An open fan of three triangles around a vertex at the origin.
FanAtOrigin ==
  [ verts |-> << <<0,0,0>>, <<4,0,0>>, <<0,4,0>>, <<-4,0,0>>, <<0,-4,0>> >>,
    faces |-> << <<1,2,3>>, <<1,3,4>>, <<1,4,5>> >> ]

Meshes ==
    << Tetrahedron, Octahedron, OctahedronShuffled, Bipyramid, Icosahedron,
       Icosphere42, Pillow, SingleTriangle, Book, FanAndBook, FanAtOrigin >>

\* Placements of the input mesh relative to the origin.
Translations == { <<0,0,0>>, <<1,0,0>>, <<-1,1,0>>, <<5,4,3>> }

Translate(m, tr) ==
    [ verts |-> [i \in 1..Len(m.verts) |-> VAdd(m.verts[i], tr)],
      faces |-> m.faces ]

-----------------------------------------------------------------------------
(* build_dual_from_object, lines 126-184                                   *)

Range(s) == {s[i] : i \in DOMAIN s}

\* bmesh.ops.triangulate, line 134: a triangle is left as it is (every input
\* mesh of the model is triangulated).
Triangulate(m) == m

\* v.link_faces: the faces v is a corner of, in the order of the face table.
LinkFaces(m, v) ==
    SelectSeq([i \in 1..Len(m.faces) |-> i], LAMBDA i : v \in Range(m.faces[i]))

RECURSIVE SumVerts(_, _)
SumVerts(m, corners) ==
    IF corners = <<>> THEN Zero3
    ELSE VAdd(m.verts[Head(corners)], SumVerts(m, Tail(corners)))

\* f.calc_center_median(): the mean of the corners, as the rational n / d.
calc_center_median(m, f) ==
    [n |-> SumVerts(m, m.faces[f]), d |-> Len(m.faces[f])]

\* Lines 153-165: the pair <<u.t, u.b>> whose atan2 is the angle of face f
\* around vertex v, each up to a positive factor (the pair is divided by its
\* gcd). <<1, 0>> is the angle 0.0 of line 162.
AngleKey(m, v, f) ==
    LET p  == m.verts[v]
        c  == calc_center_median(m, f)
        tb == tangent_basis(p)
        \* u = c - v.co, times c.d
        d0 == VSub(c.n, VScale(c.d, p))
        \* u = u - n * u.dot(n) with n = v.co.normalized(), times |v.co|^2
        u  == IF p = Zero3 THEN d0
              ELSE VSub(VScale(Dot(p, p), d0), VScale(Dot(d0, p), p))
        x  == Dot(Direction(u), tb.t)
        y  == Dot(Direction(u), tb.b)
        g  == Gcd(x, y)
    IN  IF u = Zero3 THEN <<1, 0>>
        ELSE IF g = 0 THEN <<0, 0>>
        ELSE <<x \div g, y \div g>>

\* Where atan2(k[2], k[1]) lies: 0 in (-pi, 0), 1 at 0, 2 in (0, pi), 3 at pi.
AngleRegion(k) ==
    IF k[2] < 0 THEN 0 ELSE IF k[2] > 0 THEN 2 ELSE IF k[1] >= 0 THEN 1 ELSE 3

\* atan2 of a is less than atan2 of b.
AngleLess(a, b) ==
    \/ AngleRegion(a) < AngleRegion(b)
    \/ /\ AngleRegion(a) = AngleRegion(b)
       /\ AngleRegion(a) \in {0, 2}
       /\ a[1] * b[2] - b[1] * a[2] > 0

RECURSIVE InsertByAngle(_, _)
InsertByAngle(sorted, item) ==
    IF sorted = <<>> THEN <<item>>
    ELSE IF AngleLess(item.ang, Head(sorted).ang) THEN <<item>> \o sorted
    ELSE <<Head(sorted)>> \o InsertByAngle(Tail(sorted), item)

RECURSIVE SortItems(_, _)
SortItems(sorted, items) ==
    IF items = <<>> THEN sorted
    ELSE SortItems(InsertByAngle(sorted, Head(items)), Tail(items))

\* The incident faces of v left in the order of v.link_faces.
UnsortedFaces(m, v) == LinkFaces(m, v)

\* Lines 156-169: the incident faces of v by ascending angle (a stable sort).
SortedFaces(m, v) ==
    LET linked == LinkFaces(m, v)
        items  == [i \in 1..Len(linked) |->
                     [ang |-> AngleKey(m, v, linked[i]), f |-> linked[i]]]
        sorted == SortItems(<<>>, items)
    IN  [i \in 1..Len(sorted) |-> sorted[i].f]

\* dual_bm.faces.new(dverts), line 172: ValueError for fewer than three
\* corners, a corner used twice, or a face on the same vertices that exists.
FacesNew(faces, dverts) ==
    IF \/ Len(dverts) < 3
       \/ Cardinality(Range(dverts)) < Len(dverts)
       \/ \E k \in 1..Len(faces) :
             /\ Len(faces[k].corners) = Len(dverts)
             /\ Range(faces[k].corners) = Range(dverts)
    THEN "ValueError" ELSE "ok"

\* Lines 171-174: the exceptions the try statement catches.
CaughtNothing(e) == FALSE

Caught(e) == e = "ValueError"

\* Line 150: a vertex with fewer than three incident faces is passed over.
SkipsValenceThree(m, v) == Len(LinkFaces(m, v)) <= 3

SkipsVertex(m, v) == Len(LinkFaces(m, v)) < 3

DualInit ==
    /\ \E k \in 1..Len(Meshes), tr \in Translations :
          objMesh = Translate(Meshes[k], tr)
    /\ bm = [verts |-> <<>>, faces |-> <<>>]
    /\ dpc = "from_mesh"
    /\ fi = 1
    /\ vi = 1
    /\ dualVerts = <<>>
    /\ faceToDv = <<>>
    /\ dualFaces = <<>>
    \* No jitter pass is under way.
    /\ jIn = [pos |-> <<>>, edges |-> {}]
    /\ jp = [radius |-> 0, strength |-> 0, smooth_iters |-> 0,
             lam |-> <<0, 1>>, seed |-> 0]
    /\ co = <<>>
    /\ rng = 0
    /\ jpc = "off"
    /\ jv = 1
    /\ sit = 0
    /\ offsets = <<>>
    /\ run = 1
    /\ out1 = <<>>
    /\ pre = <<>>
    \* No run of the script is under way.
    /\ cfg = [sphere_radius |-> 0]
    /\ ppc = "off"
    /\ objs = [n \in {} |-> 0]
    /\ active = "none"
    /\ selected = {}
    /\ mods = <<>>
    /\ applied = <<>>
    /\ created = {}
    /\ failure = <<>>
    /\ before = {}

\* Lines 128-138.
LoadBMesh ==
    /\ dpc = "from_mesh"
    /\ bm' = Triangulate(objMesh)
    /\ dpc' = "verts"
    /\ UNCHANGED <<objMesh, fi, vi, dualVerts, faceToDv, dualFaces>>
    /\ UNCHANGED <<jitterVars, pipeVars>>

\* Lines 141-144, one face.
EmitDualVert ==
    /\ dpc = "verts"
    /\ fi <= Len(bm.faces)
    /\ dualVerts' = Append(dualVerts, calc_center_median(bm, fi))
    /\ faceToDv' = Append(faceToDv, Len(dualVerts) + 1)
    /\ fi' = fi + 1
    /\ UNCHANGED <<objMesh, bm, dpc, vi, dualFaces>>
    /\ UNCHANGED <<jitterVars, pipeVars>>

\* Line 145: the loop over the faces is over.
EndDualVerts ==
    /\ dpc = "verts"
    /\ fi > Len(bm.faces)
    /\ dpc' = "faces"
    /\ UNCHANGED <<objMesh, bm, fi, vi, dualVerts, faceToDv, dualFaces>>
    /\ UNCHANGED <<jitterVars, pipeVars>>

\* Lines 148-174, one vertex.
EmitDualFace ==
    /\ dpc = "faces"
    /\ vi <= Len(bm.verts)
    /\ IF SkipsVertex(bm, vi)
       THEN /\ vi' = vi + 1
            /\ UNCHANGED <<dpc, dualFaces>>
       ELSE LET sorted == SortedFaces(bm, vi)
                dverts == [i \in 1..Len(sorted) |-> faceToDv[sorted[i]]]
                r      == FacesNew(dualFaces, dverts)
            IN  IF r = "ok"
                THEN /\ dualFaces' = Append(dualFaces, [v |-> vi, corners |-> dverts])
                     /\ vi' = vi + 1
                     /\ UNCHANGED dpc
                ELSE IF Caught(r)
                THEN /\ vi' = vi + 1
                     /\ UNCHANGED <<dpc, dualFaces>>
                ELSE /\ dpc' = "raised"
                     /\ UNCHANGED <<vi, dualFaces>>
    /\ UNCHANGED <<objMesh, bm, fi, dualVerts, faceToDv>>
    /\ UNCHANGED <<jitterVars, pipeVars>>

\* Lines 176-184: the dual mesh becomes the object the function returns.
ReturnDual ==
    /\ dpc = "faces"
    /\ vi > Len(bm.verts)
    /\ dpc' = "done"
    /\ UNCHANGED <<objMesh, bm, fi, vi, dualVerts, faceToDv, dualFaces>>
    /\ UNCHANGED <<jitterVars, pipeVars>>

DualNext ==
    \/ LoadBMesh
    \/ EmitDualVert
    \/ EndDualVerts
    \/ EmitDualFace
    \/ ReturnDual

-----------------------------------------------------------------------------
(* Properties of build_dual_from_object                                    *)

Valence(m, v) == Len(LinkFaces(m, v))

IsTriangulated(m) ==
    \A f \in 1..Len(m.faces) :
        Len(m.faces[f]) = 3 /\ Cardinality(Range(m.faces[f])) = 3

\* Faces f and g meet in an edge at vertex v.
ShareEdgeAt(m, v, f, g) ==
    \E w \in Range(m.faces[f]) \cap Range(m.faces[g]) : w # v

RECURSIVE FanReach(_, _, _)
FanReach(m, v, seen) ==
    LET more == {g \in Range(LinkFaces(m, v)) \ seen :
                    \E f \in seen : ShareEdgeAt(m, v, f, g)}
    IN  IF more = {} THEN seen ELSE FanReach(m, v, seen \cup more)

\* Every edge borders exactly two faces and the faces around every vertex form
\* one fan.
IsClosedManifold(m) ==
    /\ \A f \in 1..Len(m.faces) : \A a, b \in Range(m.faces[f]) :
          a # b => Cardinality({g \in 1..Len(m.faces) :
                                  {a, b} \subseteq Range(m.faces[g])}) = 2
    /\ \A v \in 1..Len(m.verts) :
          /\ Valence(m, v) >= 1
          /\ FanReach(m, v, {LinkFaces(m, v)[1]}) = Range(LinkFaces(m, v))

\* A strictly convex closed polyhedron with the origin strictly inside: every
\* face plane has the origin and all other vertices strictly on one side.
IsConvexCentred(m) ==
    /\ IsTriangulated(m)
    /\ IsClosedManifold(m)
    /\ \A f \in 1..Len(m.faces) :
          LET p1 == m.verts[m.faces[f][1]]
              nn == Cross(VSub(m.verts[m.faces[f][2]], p1),
                          VSub(m.verts[m.faces[f][3]], p1))
              s0 == Dot(nn, VSub(Zero3, p1))
          IN  /\ s0 # 0
              /\ \A q \in 1..Len(m.verts) \ Range(m.faces[f]) :
                    Dot(nn, VSub(m.verts[q], p1)) * s0 > 0

\* Consecutive corners of dual face k (cyclically) come from faces of the input
\* that share an edge at the vertex the dual face was built around.
FanOrdered(k) ==
    LET c == dualFaces[k].corners
        v == dualFaces[k].v
        n == Len(c)
        FaceOf(dv) == CHOOSE f \in 1..Len(faceToDv) : faceToDv[f] = dv
    IN  \A i \in 1..n :
            ShareEdgeAt(objMesh, v, FaceOf(c[i]), FaceOf(c[(i % n) + 1]))

\* The corners of dual face k are in ascending order of angle.
AscendingAngles(k) ==
    LET c == dualFaces[k].corners
        v == dualFaces[k].v
        FaceOf(dv) == CHOOSE f \in 1..Len(faceToDv) : faceToDv[f] = dv
    IN  \A i, j \in 1..Len(c) :
            i < j => ~AngleLess(AngleKey(objMesh, v, FaceOf(c[j])),
                                AngleKey(objMesh, v, FaceOf(c[i])))

HasDualFace(v) == \E k \in 1..Len(dualFaces) : dualFaces[k].v = v

\* C1: for a closed, manifold, triangulated input with F faces the dual has F
\* vertices, the vertex of each face at that face's centroid, and as many faces
\* as the input has vertices of valence >= 3 (80 and 42 for the 42-vertex,
\* 80-face icosphere).
C1_DualCounts ==
    (dpc = "done" /\ IsTriangulated(objMesh) /\ IsClosedManifold(objMesh)) =>
        /\ Len(dualVerts) = Len(objMesh.faces)
        /\ \A f \in 1..Len(objMesh.faces) :
              VScale(3, dualVerts[faceToDv[f]].n) =
                  VScale(dualVerts[faceToDv[f]].d,
                         VAdd(objMesh.verts[objMesh.faces[f][1]],
                              VAdd(objMesh.verts[objMesh.faces[f][2]],
                                   objMesh.verts[objMesh.faces[f][3]])))
        /\ Len(dualFaces) =
              Cardinality({v \in 1..Len(objMesh.verts) : Valence(objMesh, v) >= 3})
        /\ (Len(objMesh.verts) = 42 /\ Len(objMesh.faces) = 80) =>
              (Len(dualVerts) = 80 /\ Len(dualFaces) = 42)

C1_Witness ==
    /\ dpc = "done"
    /\ IsTriangulated(objMesh) /\ IsClosedManifold(objMesh)
    /\ Len(objMesh.verts) = 42 /\ Len(objMesh.faces) = 80
    /\ Len(dualFaces) = 42

\* C6 as stated, for the closed manifold triangulated inputs of the builder's
\* contract wherever they lie: for every vertex of valence >= 3, consecutive
\* corners of its dual face come from faces that share an edge at the vertex.
C6_FanOrderAnyMesh ==
    (IsTriangulated(objMesh) /\ IsClosedManifold(objMesh)) =>
        \A k \in 1..Len(dualFaces) : FanOrdered(k)

\* C6 amended: when the input is a strictly convex closed triangulated
\* polyhedron with the origin strictly inside, the corners of every dual face
\* are in ascending angle and consecutive corners come from faces that share
\* an edge at the vertex.
C6_FanOrderConvexCentred ==
    (dpc = "done" /\ IsConvexCentred(objMesh)) =>
        \A k \in 1..Len(dualFaces) : FanOrdered(k) /\ AscendingAngles(k)

C6_Witness ==
    /\ dpc = "done"
    /\ IsConvexCentred(objMesh)
    /\ \E k \in 1..Len(dualFaces) :
          /\ Len(dualFaces[k].corners) >= 5
          /\ dualFaces[k].corners #
                [i \in 1..Len(dualFaces[k].corners) |->
                    faceToDv[LinkFaces(objMesh, dualFaces[k].v)[i]]]

\* C7: build_dual_from_object never raises; a vertex with fewer than three
\* incident faces gets no dual face, a vertex whose face creation fails gets
\* none either, and every dual vertex and every other dual face is emitted.
C7_OmissionNotFailure ==
    /\ dpc # "raised"
    /\ dpc = "done" =>
          /\ Len(dualVerts) = Len(objMesh.faces)
          /\ \A v \in 1..Len(objMesh.verts) :
                LET want == {faceToDv[f] : f \in Range(LinkFaces(objMesh, v))}
                IN  IF Valence(objMesh, v) < 3 THEN ~HasDualFace(v)
                    ELSE \/ \E k \in 1..Len(dualFaces) :
                              /\ dualFaces[k].v = v
                              /\ Range(dualFaces[k].corners) = want
                         \/ /\ ~HasDualFace(v)
                            /\ \E k \in 1..Len(dualFaces) :
                                  /\ dualFaces[k].v < v
                                  /\ Range(dualFaces[k].corners) = want

C7_Witness ==
    /\ dpc = "done"
    /\ \E v \in 1..Len(objMesh.verts) : Valence(objMesh, v) < 3
    /\ \E v \in 1..Len(objMesh.verts) : Valence(objMesh, v) >= 3 /\ ~HasDualFace(v)
    /\ Len(dualFaces) >= 2
    /\ Len(dualVerts) = Len(objMesh.faces)

-----------------------------------------------------------------------------
(* organic_jitter_dual_on_sphere, lines 45-97, and project_to_radius       *)

MaxSmoothIters == 2

\* Dual meshes handed to the jitter pass: vertex positions of rational length
\* with rational tangent bases, and the edges between them.
JitterMeshes ==
    { [pos   |-> << <<5,0,0>>, <<0,5,0>>, <<0,0,5>>, <<3,4,0>> >>,
       edges |-> { {1,2}, {2,3}, {1,3} }],
      [pos   |-> << <<0,0,0>>, <<5,0,0>>, <<0,3,4>> >>,
       edges |-> { {1,2}, {2,3} }],
      [pos   |-> << <<0,0,0>>, <<4,0,3>>, <<0,0,5>>, <<0,-5,0>> >>,
       edges |-> { {2,3}, {3,4} }] }

Radii == {5, 60}

Strengths == {0, 3}

Lambdas == { <<0, 1>>, <<11, 20>>, <<1, 1>> }

Seeds == {0, 7}

\* Line 58: the other ends of the edges at v.
Nbrs(m, v) == {u \in 1..Len(m.pos) : {u, v} \in m.edges /\ u # v}

\* project_to_radius, lines 40-43.  A zero vector scaled stays the zero vector.
ProjectNoFallback(p, radius) ==
    IF radius = 0 \/ p.n = Zero3 THEN ToPos(RVZero)
    ELSE [dir |-> Direction(VScale(Sign(radius), p.n)),
          len2 |-> Rat(radius * radius, 1)]

project_to_radius(p, radius) ==
    IF p.n = Zero3 THEN ToPos(RVec(<<radius, 0, 0>>, 1))
    ELSE IF radius = 0 THEN ToPos(RVZero)
    ELSE [dir |-> Direction(VScale(Sign(radius), p.n)),
          len2 |-> Rat(radius * radius, 1)]

\* The generator of module random, as a linear congruential generator on 8
\* states.  random.seed(seed), line 50, sets its state from the seed alone.
KeepState(state, seed) == state

Reseed(state, seed) == seed % 8

NextRng(state) == (5 * state + 3) % 8

\* random.random() read off the state the draw leaves: one of 0, 1/4, 1/2, 3/4.
Random01(state) == Rat(state \div 2, 4)

\* cos and sin of 2 pi u for u in {0, 1/4, 1/2, 3/4}.
CosSin(u) ==
    CASE u = <<0, 1>> -> <<1, 0>>
      [] u = <<1, 4>> -> <<0, 1>>
      [] u = <<1, 2>> -> <<-1, 0>>
      [] u = <<3, 4>> -> <<0, -1>>

\* The initial offset with the magnitude left unscaled by strength.
InitialOffsetUnscaled(pos, u1, u2, strength) ==
    LET tb      == tangent_basis(pos.dir)
        t       == RVUnit(RVec(tb.t, 1))
        b       == RVUnit(RVec(tb.b, 1))
        cs      == CosSin(u1)
        dir_tan == RVAdd(RVScale(<<cs[1], 1>>, t), RVScale(<<cs[2], 1>>, b))
        mag     == RatAdd(<<1, 5>>, RatMul(<<4, 5>>, u2))
    IN  RVScale(mag, RVUnit(dir_tan))

\* Lines 63-69 for one vertex at position pos, with the two draws u1, u2 of
\* random.random() behind the two calls of random.uniform.
InitialOffset(pos, u1, u2, strength) ==
    LET tb      == tangent_basis(pos.dir)
        t       == RVUnit(RVec(tb.t, 1))
        b       == RVUnit(RVec(tb.b, 1))
        cs      == CosSin(u1)                       \* ang = 0 + 2 pi u1
        dir_tan == RVAdd(RVScale(<<cs[1], 1>>, t), RVScale(<<cs[2], 1>>, b))
        \* mag = (0.2 + 0.8 u2) * strength
        mag     == RatMul(RatAdd(<<1, 5>>, RatMul(<<4, 5>>, u2)), <<strength, 1>>)
    IN  RVScale(mag, RVUnit(dir_tan))

RECURSIVE RVSum(_, _)
RVSum(offs, set) ==
    IF set = {} THEN RVZero
    ELSE LET u == CHOOSE x \in set : TRUE
         IN  RVAdd(offs[u], RVSum(offs, set \ {u}))

\* a.lerp(b, fac) of mathutils: (1 - fac) a + fac b.
Lerp(a, b, fac) ==
    RVAdd(RVScale(RatAdd(<<1, 1>>, <<-fac[1], fac[2]>>), a), RVScale(fac, b))

\* Lines 75-84 for vertex v, reading the field offs.
SmoothedOffset(m, offs, v, lam) ==
    LET ln == Cardinality(Nbrs(m, v))
    IN  IF ln > 0
        THEN Lerp(offs[v], RVScale(<<1, ln>>, RVSum(offs, Nbrs(m, v))), lam)
        ELSE offs[v]

\* One iteration in which a vertex reads the values the iteration has already
\* written for the vertices before it.
RECURSIVE SmoothInPlaceFrom(_, _, _, _)
SmoothInPlaceFrom(m, offs, v, lam) ==
    IF v > Len(offs) THEN offs
    ELSE SmoothInPlaceFrom(m, [offs EXCEPT ![v] = SmoothedOffset(m, offs, v, lam)],
                           v + 1, lam)

SmoothInPlace(m, offs, lam) == SmoothInPlaceFrom(m, offs, 1, lam)

\* Lines 73-85: one iteration; every vertex reads the field of the iteration
\* before (new_offsets replaces offsets only at line 85).
SmoothOnce(m, offs, lam) ==
    [v \in 1..Len(offs) |-> SmoothedOffset(m, offs, v, lam)]

\* Lines 89-93 up to the projection: v.co + off with off made tangential.
Displaced(pos, off) ==
    LET n == RVUnit(Cart(pos))
    IN  RVAdd(Cart(pos), RVSub(off, RVScale(RVDot(off, n), n)))

Max(a, b) == IF a > b THEN a ELSE b

PosOfMesh(m) == [v \in 1..Len(m.pos) |-> ToPos(RVec(m.pos[v], 1))]

JitterInit ==
    /\ jIn \in JitterMeshes
    /\ jp \in [radius : Radii, strength : Strengths,
                smooth_iters : -1..MaxSmoothIters, lam : Lambdas, seed : Seeds]
    /\ co = PosOfMesh(jIn)
    /\ rng = 0
    /\ jpc = "idle"
    /\ jv = 1
    /\ sit = 0
    /\ offsets = <<>>
    /\ run = 1
    /\ out1 = <<>>
    /\ pre = <<>>
    \* No dual is being built.
    /\ objMesh = [verts |-> <<>>, faces |-> <<>>]
    /\ bm = [verts |-> <<>>, faces |-> <<>>]
    /\ dpc = "off"
    /\ fi = 1
    /\ vi = 1
    /\ dualVerts = <<>>
    /\ faceToDv = <<>>
    /\ dualFaces = <<>>
    \* No run of the script is under way.
    /\ cfg = [sphere_radius |-> 0]
    /\ ppc = "off"
    /\ objs = [n \in {} |-> 0]
    /\ active = "none"
    /\ selected = {}
    /\ mods = <<>>
    /\ applied = <<>>
    /\ created = {}
    /\ failure = <<>>
    /\ before = {}

\* A draw made elsewhere in the process before the call.
OtherDraw ==
    /\ jpc = "idle"
    /\ rng' = NextRng(rng)
    /\ UNCHANGED <<jIn, jp, co, jpc, jv, sit, offsets, run, out1, pre>>
    /\ UNCHANGED <<dualVars, pipeVars>>

\* Lines 50-61.
JitterStart ==
    /\ jpc = "idle"
    /\ rng' = Reseed(rng, jp.seed)
    /\ jpc' = "offsets"
    /\ jv' = 1
    /\ offsets' = <<>>
    /\ pre' = Append(pre, rng)
    /\ UNCHANGED <<jIn, jp, co, sit, run, out1>>
    /\ UNCHANGED <<dualVars, pipeVars>>

\* Lines 62-69, one vertex: two draws, one offset.
InitOffset ==
    /\ jpc = "offsets"
    /\ jv <= Len(co)
    /\ LET s1 == NextRng(rng)
           s2 == NextRng(s1)
       IN  /\ offsets' = Append(offsets,
                  InitialOffset(co[jv], Random01(s1), Random01(s2), jp.strength))
           /\ rng' = s2
    /\ jv' = jv + 1
    /\ UNCHANGED <<jIn, jp, co, jpc, sit, run, out1, pre>>
    /\ UNCHANGED <<dualVars, pipeVars>>

EndInitOffsets ==
    /\ jpc = "offsets"
    /\ jv > Len(co)
    /\ jpc' = "smooth"
    /\ sit' = 0
    /\ UNCHANGED <<jIn, jp, co, rng, jv, offsets, run, out1, pre>>
    /\ UNCHANGED <<dualVars, pipeVars>>

\* Lines 72-85, one iteration.
SmoothIteration ==
    /\ jpc = "smooth"
    /\ sit < Max(0, jp.smooth_iters)
    /\ offsets' = SmoothOnce(jIn, offsets, jp.lam)
    /\ sit' = sit + 1
    /\ UNCHANGED <<jIn, jp, co, rng, jpc, jv, run, out1, pre>>
    /\ UNCHANGED <<dualVars, pipeVars>>

EndSmooth ==
    /\ jpc = "smooth"
    /\ sit >= Max(0, jp.smooth_iters)
    /\ jpc' = "apply"
    /\ jv' = 1
    /\ UNCHANGED <<jIn, jp, co, rng, sit, offsets, run, out1, pre>>
    /\ UNCHANGED <<dualVars, pipeVars>>

\* Lines 88-93, one vertex.
ApplyOffset ==
    /\ jpc = "apply"
    /\ jv <= Len(co)
    /\ co' = [co EXCEPT ![jv] =
                 project_to_radius(Displaced(co[jv], offsets[jv]), jp.radius)]
    /\ jv' = jv + 1
    /\ UNCHANGED <<jIn, jp, rng, jpc, sit, offsets, run, out1, pre>>
    /\ UNCHANGED <<dualVars, pipeVars>>

\* Lines 95-97.
JitterReturn ==
    /\ jpc = "apply"
    /\ jv > Len(co)
    /\ jpc' = "done"
    /\ UNCHANGED <<jIn, jp, co, rng, jv, sit, offsets, run, out1, pre>>
    /\ UNCHANGED <<dualVars, pipeVars>>

\* The call is repeated on an identical dual mesh with identical arguments.
CallAgain ==
    /\ jpc = "done"
    /\ run = 1
    /\ out1' = co
    /\ co' = PosOfMesh(jIn)
    /\ run' = 2
    /\ jpc' = "idle"
    /\ jv' = 1
    /\ sit' = 0
    /\ offsets' = <<>>
    /\ UNCHANGED <<jIn, jp, rng, pre>>
    /\ UNCHANGED <<dualVars, pipeVars>>

JitterNext ==
    \/ OtherDraw
    \/ JitterStart
    \/ InitOffset
    \/ EndInitOffsets
    \/ SmoothIteration
    \/ EndSmooth
    \/ ApplyOffset
    \/ JitterReturn
    \/ CallAgain

-----------------------------------------------------------------------------
(* Properties of organic_jitter_dual_on_sphere                             *)

OnSphere(dir, radius) == [dir |-> dir, len2 |-> Rat(radius * radius, 1)]

\* C2 as stated: with strength = 0 every position after the call equals the
\* position before it.
C2_StrengthZeroKeepsPositions ==
    (jpc = "done" /\ jp.strength = 0) => co = PosOfMesh(jIn)

\* C2 amended: with strength = 0 every vertex ends at the radial projection
\* of its position onto the sphere of the given radius (a vertex at the origin
\* ends at (radius, 0, 0)); it keeps its position exactly when that position
\* was at distance radius from the origin.
C2_StrengthZeroProjects ==
    (jpc = "done" /\ jp.strength = 0) =>
        \A v \in 1..Len(co) :
            /\ co[v] = IF jIn.pos[v] = Zero3
                       THEN OnSphere(<<1, 0, 0>>, jp.radius)
                       ELSE OnSphere(Direction(jIn.pos[v]), jp.radius)
            /\ co[v] = PosOfMesh(jIn)[v] <=>
                  Dot(jIn.pos[v], jIn.pos[v]) = jp.radius * jp.radius

C2_Witness ==
    /\ jpc = "done" /\ jp.strength = 0 /\ jp.smooth_iters > 0
    /\ \E v \in 1..Len(co) : jIn.pos[v] # Zero3 /\ co[v] # PosOfMesh(jIn)[v]

\* C3: with lam = 1 one smoothing iteration leaves, at every vertex with a
\* neighbour, the mean of its neighbours' offsets of before the iteration,
\* and leaves the offset of a vertex without neighbours as it was.
C3_LambdaOneMean ==
    [][(jpc = "smooth" /\ sit' = sit + 1 /\ jp.lam = <<1, 1>>) =>
          \A v \in 1..Len(offsets) :
              IF Nbrs(jIn, v) = {} THEN offsets'[v] = offsets[v]
              ELSE RVScale(<<Cardinality(Nbrs(jIn, v)), 1>>, offsets'[v]) =
                       RVSum(offsets, Nbrs(jIn, v))]_vars

C3_Witness ==
    /\ jpc = "smooth" /\ sit = 1 /\ jp.lam = <<1, 1>> /\ jp.strength > 0
    /\ \E v \in 1..Len(offsets) : Nbrs(jIn, v) = {} /\ offsets[v] # RVZero
    /\ \E u, v \in 1..Len(offsets) :
          /\ Nbrs(jIn, u) # {} /\ Nbrs(jIn, v) # {}
          /\ offsets[u] # offsets[v]

\* C4: the repeated call, on an identical mesh with identical arguments, leaves
\* the positions the first call left, whatever the generator's state was on
\* entry to either call.
C4_SameSeedSameOutput ==
    (run = 2 /\ jpc = "done") => co = out1

C4_Witness ==
    /\ run = 2 /\ jpc = "done" /\ jp.strength > 0
    /\ pre[1] # pre[2]
    /\ co = out1
    /\ co # PosOfMesh(jIn)

\* C5: after the call every vertex is at distance radius from the origin, and
\* a vertex whose displaced position is the zero vector is at (radius, 0, 0).
C5_OnSphere ==
    jpc = "done" =>
        \A v \in 1..Len(co) :
            /\ co[v].len2 = Rat(jp.radius * jp.radius, 1)
            /\ Displaced(PosOfMesh(jIn)[v], offsets[v]) = RVZero =>
                  co[v] = ToPos(RVec(<<jp.radius, 0, 0>>, 1))

C5_Witness ==
    /\ jpc = "done" /\ jp.strength > 0 /\ run = 1
    /\ \E v \in 1..Len(co) :
          /\ Displaced(PosOfMesh(jIn)[v], offsets[v]) = RVZero
          /\ co[v] = ToPos(RVec(<<jp.radius, 0, 0>>, 1))
    /\ \E v \in 1..Len(co) :
          /\ offsets[v] # RVZero
          /\ co[v].dir # PosOfMesh(jIn)[v].dir
          /\ co[v].len2 = Rat(jp.radius * jp.radius, 1)

-----------------------------------------------------------------------------
(* The module-level script, lines 186-296                                  *)
(*                                                                         *)
(* Lengths are in units of 0.01, so that the floor 0.01 of line 251 is 1.  *)
(* An object is [kind, size, origin]; the mesh data of the dual is the     *)
(* subject of SpecDual and SpecJitter and is not carried here.  Every      *)
(* object in the scene before the run is visible and selectable.           *)

SphereRadii == {6000, 100}

WallThicknesses == {150, 100, 9000}

\* Names of objects a scene may hold before the run.
EarlierObjects == {"Cube", "Camera", "StrutNetwork"}

Helpers == {"BaseSphere", "OuterVolume", "DualGeodesic", "InnerVolume", "DomeKeepCube"}

Obj(kind, size) == [kind |-> kind, size |-> size, origin |-> "script"]

\* f with name bound to obj.
Put(f, name, obj) ==
    [n \in DOMAIN f \cup {name} |-> IF n = name THEN obj ELSE f[n]]

\* f without the names in gone.
Drop(f, gone) == [n \in DOMAIN f \ gone |-> f[n]]

\* Line 251, in units of 0.01.
InnerRadius(c) == Max(1, c.sphere_radius - c.wall_thickness)

\* The order of the statements with the intersection and the hollowing
\* exchanged.
StepAfterHollowFirst(pc, c) ==
    CASE pc = "start"        -> "add_base"
      [] pc = "add_base"     -> "copy_outer"
      [] pc = "copy_outer"   -> "build_dual"
      [] pc = "build_dual"   -> "jitter"
      [] pc = "jitter"       -> "copy_struts"
      [] pc = "copy_struts"  -> "wireframe"
      [] pc = "wireframe"    -> IF c.use_voxel_remesh THEN "remesh" ELSE "add_inner"
      [] pc = "remesh"       -> "add_inner"
      [] pc = "add_inner"    -> "hollow"
      [] pc = "hollow"       -> "intersect"
      [] pc = "intersect"    -> IF c.make_dome THEN "dome_cube"
                                ELSE IF c.delete_helpers THEN "cleanup" ELSE "shade"
      [] pc = "dome_cube"    -> "dome"
      [] pc = "dome"         -> IF c.delete_helpers THEN "dome_cleanup" ELSE "shade"
      [] pc = "dome_cleanup" -> "cleanup"
      [] pc = "cleanup"      -> "shade"
      [] pc = "shade"        -> "done"

\* The statement that follows statement pc, lines 189-296: the if statements
\* of lines 232, 266, 278 and 284 choose by the parameters.
StepAfter(pc, c) ==
    CASE pc = "start"        -> "add_base"
      [] pc = "add_base"     -> "copy_outer"
      [] pc = "copy_outer"   -> "build_dual"
      [] pc = "build_dual"   -> "jitter"
      [] pc = "jitter"       -> "copy_struts"
      [] pc = "copy_struts"  -> "wireframe"
      [] pc = "wireframe"    -> IF c.use_voxel_remesh THEN "remesh" ELSE "intersect"
      [] pc = "remesh"       -> "intersect"
      [] pc = "intersect"    -> "add_inner"
      [] pc = "add_inner"    -> "hollow"
      [] pc = "hollow"       -> IF c.make_dome THEN "dome_cube"
                                ELSE IF c.delete_helpers THEN "cleanup" ELSE "shade"
      [] pc = "dome_cube"    -> "dome"
      [] pc = "dome"         -> IF c.delete_helpers THEN "dome_cleanup" ELSE "shade"
      [] pc = "dome_cleanup" -> "cleanup"
      [] pc = "cleanup"      -> "shade"
      [] pc = "shade"        -> "done"

\* A failed modifier_apply taken for a success.
FailureIgnored(ok, next) == next

\* bpy.ops.object.modifier_apply, line 113: a failure raises, nothing catches
\* it, and the script ends there.
AfterApply(ok, next) == IF ok THEN next ELSE "aborted"

\* The helpers removed at lines 285-288, the inner sphere forgotten.
CleanupWithoutInner == {"BaseSphere", "DualGeodesic", "OuterVolume"}

\* Lines 285-288.
CleanupTargets == {"BaseSphere", "DualGeodesic", "OuterVolume", "InnerVolume"}

PipeInit ==
    /\ cfg \in [sphere_radius : SphereRadii, wall_thickness : WallThicknesses,
                 make_dome : BOOLEAN, use_voxel_remesh : BOOLEAN,
                 delete_helpers : BOOLEAN]
    /\ ppc = "start"
    /\ before \in SUBSET EarlierObjects
    /\ objs = [n \in before |-> [kind |-> "other", size |-> 0, origin |-> "before"]]
    /\ active = "none"
    /\ selected = {}
    /\ mods = <<>>
    /\ applied = <<>>
    /\ created = {}
    /\ failure = <<>>
    \* No dual is being built.
    /\ objMesh = [verts |-> <<>>, faces |-> <<>>]
    /\ bm = [verts |-> <<>>, faces |-> <<>>]
    /\ dpc = "off"
    /\ fi = 1
    /\ vi = 1
    /\ dualVerts = <<>>
    /\ faceToDv = <<>>
    /\ dualFaces = <<>>
    \* No jitter pass is under way.
    /\ jIn = [pos |-> <<>>, edges |-> {}]
    /\ jp = [radius |-> 0, strength |-> 0, smooth_iters |-> 0,
             lam |-> <<0, 1>>, seed |-> 0]
    /\ co = <<>>
    /\ rng = 0
    /\ jpc = "off"
    /\ jv = 1
    /\ sit = 0
    /\ offsets = <<>>
    /\ run = 1
    /\ out1 = <<>>
    /\ pre = <<>>

\* apply_modifier(struts, mod.name), lines 109-113, for the modifier mod just
\* added to struts.modifiers: the object is made the only selected and the
\* active one, and the modifier is applied to it or fails to apply.
ApplyModifier(mod, ok) ==
    /\ selected' = {"StrutNetwork"}
    /\ active' = "StrutNetwork"
    /\ IF ok
       THEN /\ applied' = Append(applied, [mod EXCEPT !.target = "StrutNetwork"])
            /\ mods' = mods
            /\ UNCHANGED failure
       ELSE /\ mods' = Append(mods, mod)
            /\ failure' = << [mod |-> mod.name, applied |-> applied,
                           objs |-> objs, created |-> created] >>
            /\ UNCHANGED applied
    /\ ppc' = AfterApply(ok, StepAfter(ppc, cfg))

\* delete_all_objects(), lines 115-117 and 189.
DeleteAllObjects ==
    /\ ppc = "start"
    /\ objs' = Drop(objs, DOMAIN objs)
    /\ selected' = {}
    /\ active' = "none"
    /\ ppc' = StepAfter(ppc, cfg)
    /\ UNCHANGED <<cfg, before, mods, applied, created, failure>>
    /\ UNCHANGED <<dualVars, jitterVars>>

\* Lines 194-196.
AddBaseSphere ==
    /\ ppc = "add_base"
    /\ objs' = Put(objs, "BaseSphere", Obj("icosphere", cfg.sphere_radius))
    /\ selected' = {"BaseSphere"}
    /\ active' = "BaseSphere"
    /\ created' = created \cup {"BaseSphere"}
    /\ ppc' = StepAfter(ppc, cfg)
    /\ UNCHANGED <<cfg, before, mods, applied, failure>>
    /\ UNCHANGED <<dualVars, jitterVars>>

\* Lines 199-202.
CopyOuter ==
    /\ ppc = "copy_outer"
    /\ objs' = Put(objs, "OuterVolume", objs["BaseSphere"])
    /\ created' = created \cup {"OuterVolume"}
    /\ ppc' = StepAfter(ppc, cfg)
    /\ UNCHANGED <<cfg, before, active, selected, mods, applied, failure>>
    /\ UNCHANGED <<dualVars, jitterVars>>

\* Lines 207-208.
BuildDual ==
    /\ ppc = "build_dual"
    /\ objs' = Put(objs, "DualGeodesic", Obj("dual", objs["BaseSphere"].size))
    /\ created' = created \cup {"DualGeodesic"}
    /\ ppc' = StepAfter(ppc, cfg)
    /\ UNCHANGED <<cfg, before, active, selected, mods, applied, failure>>
    /\ UNCHANGED <<dualVars, jitterVars>>

\* Lines 209-215.
JitterDual ==
    /\ ppc = "jitter"
    /\ objs' = Put(objs, "DualGeodesic", Obj("jittered dual", cfg.sphere_radius))
    /\ ppc' = StepAfter(ppc, cfg)
    /\ UNCHANGED <<cfg, before, active, selected, mods, applied, created, failure>>
    /\ UNCHANGED <<dualVars, jitterVars>>

\* Lines 219-222.
CopyStruts ==
    /\ ppc = "copy_struts"
    /\ objs' = Put(objs, "StrutNetwork", objs["DualGeodesic"])
    /\ created' = created \cup {"StrutNetwork"}
    /\ ppc' = StepAfter(ppc, cfg)
    /\ UNCHANGED <<cfg, before, active, selected, mods, applied, failure>>
    /\ UNCHANGED <<dualVars, jitterVars>>

\* Lines 224-229.
Wireframe ==
    /\ ppc = "wireframe"
    /\ \E ok \in BOOLEAN :
          ApplyModifier([name |-> "Wireframe", type |-> "WIREFRAME",
                         operation |-> "none", operand |-> "none",
                         operandSize |-> 0, target |-> "none"], ok)
    /\ UNCHANGED <<cfg, before, objs, created>>
    /\ UNCHANGED <<dualVars, jitterVars>>

\* Lines 232-237.
VoxelRemesh ==
    /\ ppc = "remesh"
    /\ \E ok \in BOOLEAN :
          ApplyModifier([name |-> "VoxelRemesh", type |-> "REMESH",
                         operation |-> "none", operand |-> "none",
                         operandSize |-> 0, target |-> "none"], ok)
    /\ UNCHANGED <<cfg, before, objs, created>>
    /\ UNCHANGED <<dualVars, jitterVars>>

\* Lines 242-246.
IntersectOuter ==
    /\ ppc = "intersect"
    /\ \E ok \in BOOLEAN :
          ApplyModifier([name |-> "IntersectOuter", type |-> "BOOLEAN",
                         operation |-> "INTERSECT", operand |-> "OuterVolume",
                         operandSize |-> objs["OuterVolume"].size,
                         target |-> "none"], ok)
    /\ UNCHANGED <<cfg, before, objs, created>>
    /\ UNCHANGED <<dualVars, jitterVars>>

\* Lines 251-255.
AddInnerSphere ==
    /\ ppc = "add_inner"
    /\ objs' = Put(objs, "InnerVolume", Obj("icosphere", InnerRadius(cfg)))
    /\ selected' = {"InnerVolume"}
    /\ active' = "InnerVolume"
    /\ created' = created \cup {"InnerVolume"}
    /\ ppc' = StepAfter(ppc, cfg)
    /\ UNCHANGED <<cfg, before, mods, applied, failure>>
    /\ UNCHANGED <<dualVars, jitterVars>>

\* Lines 257-261.
Hollow ==
    /\ ppc = "hollow"
    /\ \E ok \in BOOLEAN :
          ApplyModifier([name |-> "Hollow", type |-> "BOOLEAN",
                         operation |-> "DIFFERENCE", operand |-> "InnerVolume",
                         operandSize |-> objs["InnerVolume"].size,
                         target |-> "none"], ok)
    /\ UNCHANGED <<cfg, before, objs, created>>
    /\ UNCHANGED <<dualVars, jitterVars>>

\* Lines 268-270.
AddDomeCube ==
    /\ ppc = "dome_cube"
    /\ objs' = Put(objs, "DomeKeepCube", Obj("cube", cfg.sphere_radius * 4))
    /\ selected' = {"DomeKeepCube"}
    /\ active' = "DomeKeepCube"
    /\ created' = created \cup {"DomeKeepCube"}
    /\ ppc' = StepAfter(ppc, cfg)
    /\ UNCHANGED <<cfg, before, mods, applied, failure>>
    /\ UNCHANGED <<dualVars, jitterVars>>

\* Lines 272-276.
MakeDome ==
    /\ ppc = "dome"
    /\ \E ok \in BOOLEAN :
          ApplyModifier([name |-> "MakeDome", type |-> "BOOLEAN",
                         operation |-> "INTERSECT", operand |-> "DomeKeepCube",
                         operandSize |-> objs["DomeKeepCube"].size,
                         target |-> "none"], ok)
    /\ UNCHANGED <<cfg, before, objs, created>>
    /\ UNCHANGED <<dualVars, jitterVars>>

\* Lines 278-279.
RemoveDomeCube ==
    /\ ppc = "dome_cleanup"
    /\ objs' = Drop(objs, {"DomeKeepCube"})
    /\ selected' = selected \ {"DomeKeepCube"}
    /\ active' = IF active = "DomeKeepCube" THEN "none" ELSE active
    /\ ppc' = StepAfter(ppc, cfg)
    /\ UNCHANGED <<cfg, before, mods, applied, created, failure>>
    /\ UNCHANGED <<dualVars, jitterVars>>

\* Lines 284-288.
CleanupHelpers ==
    /\ ppc = "cleanup"
    /\ objs' = Drop(objs, CleanupTargets)
    /\ selected' = selected \ CleanupTargets
    /\ active' = IF active \in CleanupTargets THEN "none" ELSE active
    /\ ppc' = StepAfter(ppc, cfg)
    /\ UNCHANGED <<cfg, before, mods, applied, created, failure>>
    /\ UNCHANGED <<dualVars, jitterVars>>

\* Lines 291-296: the shell is selected, shaded smooth, and "Done" is printed.
ShadeSmooth ==
    /\ ppc = "shade"
    /\ selected' = {"StrutNetwork"}
    /\ active' = "StrutNetwork"
    /\ ppc' = StepAfter(ppc, cfg)
    /\ UNCHANGED <<cfg, before, objs, mods, applied, created, failure>>
    /\ UNCHANGED <<dualVars, jitterVars>>

Next ==
    \/ DeleteAllObjects
    \/ AddBaseSphere
    \/ CopyOuter
    \/ BuildDual
    \/ JitterDual
    \/ CopyStruts
    \/ Wireframe
    \/ VoxelRemesh
    \/ IntersectOuter
    \/ AddInnerSphere
    \/ Hollow
    \/ AddDomeCube
    \/ MakeDome
    \/ RemoveDomeCube
    \/ CleanupHelpers
    \/ ShadeSmooth

-----------------------------------------------------------------------------
(* Properties of the script                                                *)

AppliedNames == {applied[i].name : i \in 1..Len(applied)}

IsPrefix(a, b) == Len(a) <= Len(b) /\ \A i \in 1..Len(a) : a[i] = b[i]

\* The operations on the strut solid in the order the claim gives, for the
\* parameters c.
ExpectedMods(c) ==
    << [name |-> "Wireframe", type |-> "WIREFRAME", operation |-> "none",
        operand |-> "none", operandSize |-> 0, target |-> "StrutNetwork"] >>
    \o (IF c.use_voxel_remesh
        THEN << [name |-> "VoxelRemesh", type |-> "REMESH", operation |-> "none",
                 operand |-> "none", operandSize |-> 0, target |-> "StrutNetwork"] >>
        ELSE <<>>)
    \o << [name |-> "IntersectOuter", type |-> "BOOLEAN", operation |-> "INTERSECT",
           operand |-> "OuterVolume", operandSize |-> c.sphere_radius,
           target |-> "StrutNetwork"],
          [name |-> "Hollow", type |-> "BOOLEAN", operation |-> "DIFFERENCE",
           operand |-> "InnerVolume",
           operandSize |-> IF c.sphere_radius - c.wall_thickness > 1
                           THEN c.sphere_radius - c.wall_thickness ELSE 1,
           target |-> "StrutNetwork"] >>
    \o (IF c.make_dome
        THEN << [name |-> "MakeDome", type |-> "BOOLEAN", operation |-> "INTERSECT",
                 operand |-> "DomeKeepCube", operandSize |-> 4 * c.sphere_radius,
                 target |-> "StrutNetwork"] >>
        ELSE <<>>)

\* C8: once the application of a modifier has failed the run has stopped: no
\* modifier is applied after it, no object that existed then is removed, and
\* the run does not reach its end.
C8_AbortOnFailure ==
    failure # <<>> =>
        /\ ppc = "aborted"
        /\ applied = failure[1].applied
        /\ failure[1].mod \notin AppliedNames
        /\ objs = failure[1].objs
        /\ failure[1].created \subseteq DOMAIN objs

C8_Witness ==
    /\ failure # <<>>
    /\ failure[1].mod = "MakeDome"
    /\ cfg.delete_helpers
    /\ {"BaseSphere", "OuterVolume", "DualGeodesic", "InnerVolume", "DomeKeepCube"}
          \subseteq DOMAIN objs
    /\ ppc = "aborted"

\* C9: the operations applied to the strut solid are at every moment an
\* initial part of: wireframe, remesh (if use_voxel_remesh), INTERSECT with
\* the outer sphere, DIFFERENCE with the inner sphere of radius
\* max(0.01, sphere_radius - wall_thickness), dome INTERSECT (if make_dome);
\* no modifier waits while another is added; a run that ends has applied all.
C9_FixedOrder ==
    /\ ppc # "off" => IsPrefix(applied, ExpectedMods(cfg))
    /\ ppc # "aborted" => mods = <<>>
    /\ Len(mods) <= 1
    /\ ppc = "done" => applied = ExpectedMods(cfg)

C9_Witness ==
    /\ ppc = "done"
    /\ cfg.make_dome /\ cfg.use_voxel_remesh
    /\ cfg.wall_thickness > cfg.sphere_radius
    /\ Len(applied) = 5
    /\ applied[4].operation = "DIFFERENCE" /\ applied[4].operandSize = 1

\* What uses helper h has been done.
UsedUp(h) ==
    CASE h = "BaseSphere"   -> {"OuterVolume", "DualGeodesic"} \subseteq created
      [] h = "DualGeodesic" -> "StrutNetwork" \in created
      [] h = "OuterVolume"  -> "IntersectOuter" \in AppliedNames
      [] h = "InnerVolume"  -> "Hollow" \in AppliedNames
      [] h = "DomeKeepCube" -> "MakeDome" \in AppliedNames
      [] OTHER              -> FALSE

\* C10: after the first statement no object of before the run is left; a run
\* that ends with delete_helpers leaves the strut shell alone in the scene, a
\* run that ends without it leaves the shell and every helper; and a helper
\* is removed only after the last operation that uses it.
C10_SceneAfterRun ==
    /\ ppc \notin {"off", "start"} =>
          \A n \in DOMAIN objs : objs[n].origin = "script"
    /\ (ppc = "done" /\ cfg.delete_helpers) => DOMAIN objs = {"StrutNetwork"}
    /\ (ppc = "done" /\ ~cfg.delete_helpers) =>
          DOMAIN objs = {"StrutNetwork", "BaseSphere", "OuterVolume",
                         "DualGeodesic", "InnerVolume"}
                        \cup (IF cfg.make_dome THEN {"DomeKeepCube"} ELSE {})
    /\ \A h \in created \ DOMAIN objs : UsedUp(h)

C10_Witness ==
    /\ ppc = "done"
    /\ cfg.delete_helpers /\ cfg.make_dome
    /\ {"Cube", "StrutNetwork"} \subseteq before
    /\ created = Helpers \cup {"StrutNetwork"}
    /\ DOMAIN objs = {"StrutNetwork"}
    /\ objs["StrutNetwork"].origin = "script"

-----------------------------------------------------------------------------
(* Specifications                                                          *)

\* build_dual_from_object on each input mesh of the model.
SpecDual == DualInit /\ [][DualNext]_vars

\* organic_jitter_dual_on_sphere called twice on each dual mesh of the model.
SpecJitter == JitterInit /\ [][JitterNext]_vars

\* One run of the script for each choice of the parameters and of the scene
\* before it.
Spec == PipeInit /\ [][Next]_vars

====
